---- MODULE Spec2Model ----
\* Model of the solr-subquery crate: the SolrQuery merge algebra
\* (src/solr_query/mod.rs) and the QueryChain iterator
\* (src/query_chain/mod.rs).
\*
\* Option<T> is a sequence of length 0 (None) or 1 (Some).
\* Result<T,E> is [ok |-> TRUE, val |-> v] or [ok |-> FALSE, err |-> e].
\* A Url is a record of its components; its query string is the sequence
\* of its raw parameters, each with the form it is written in:
\*   "plain"  key=value as typed by the caller
\*   "bare"   key with no '=' sign (its decoded value is "")
\*   "pair"   key=value as serialised by append_pair (form-urlencoded)
EXTENDS Integers, Sequences, FiniteSets, TLC

VARIABLES
    reg,            \* SolrQuery values held by a caller: slot -> Option<SolrQuery>
    origin,         \* slot -> the operation its value came from: "none", "new", "join", "inverse"
    ops,            \* number of SolrQuery operations performed
    queries,        \* QueryChain.queries
    iteration,      \* QueryChain.iteration
    pc,             \* "run", or "panicked" after the unwrap in next failed
    inputs,         \* every SolrQuery given to the chain, in order (history)
    initLen,        \* length of the list the chain was constructed from (history)
    calls,          \* number of calls of next (history)
    exhausted,      \* a call of next at iteration >= 1 has returned None (history)
    addsSinceNone,  \* successful add_subquery calls since next last returned None
    last            \* the last operation, its arguments and what it returned

vars == <<reg, origin, ops, queries, iteration, pc, inputs, initLen, calls,
          exhausted, addsSinceNone, last>>

queryVars == <<reg, origin, ops>>
chainVars == <<queries, iteration, pc, inputs, initLen, calls, exhausted, addsSinceNone>>

-----------------------------------------------------------------------------
(* Bounds *)

MaxOps == 5
MaxInit == 3
MaxAdds == 2
MaxCalls == 4

Slots == {1, 2}

-----------------------------------------------------------------------------
(* Option and Result *)

None == <<>>
Some(v) == <<v>>

Ok(v) == [ok |-> TRUE, val |-> v]
Err(e) == [ok |-> FALSE, err |-> e]

(* SolrSubqueryError *)
InvalidUrl(msg) == [kind |-> "InvalidUrl", msg |-> msg]
MissingQQueryParameter == [kind |-> "MissingQQueryParameter"]
MultipleQQueryParameters == [kind |-> "MultipleQQueryParameters"]
DifferentsHosts(a, b) == [kind |-> "DifferentsHosts", self |-> a, other |-> b]
DifferentsPorts(a, b) == [kind |-> "DifferentsPorts", self |-> a, other |-> b]
DifferentsPaths == [kind |-> "DifferentsPaths"]

(* Operator and its Display *)
Operator == {"And", "Or", "Not"}

OperatorDisplay(operator) ==
    CASE operator = "And" -> "AND"
      [] operator = "Or"  -> "OR"
      [] operator = "Not" -> "NOT"

-----------------------------------------------------------------------------
(* Urls *)

Plain(k, v) == [key |-> k, value |-> v, form |-> "plain"]
Bare(k) == [key |-> k, value |-> "", form |-> "bare"]

(* What a caller passes to SolrQuery::new: a string, given by its parts.  *)
(* A string with no scheme does not parse as a Url.                       *)
Source(scheme, host, port, path, query) ==
    [scheme |-> scheme, host |-> host, port |-> port, path |-> path, query |-> query]

(* url.try_into() *)
TryInto(source) ==
    IF source.scheme = None
    THEN Err("relative URL without a base")
    ELSE Ok([scheme |-> source.scheme[1], host |-> source.host, port |-> source.port,
             path |-> source.path, query |-> source.query])

(* Url::query_pairs: the decoded (key, value) pairs, in order *)
query_pairs(url) ==
    [i \in 1..Len(url.query) |-> <<url.query[i].key, url.query[i].value>>]

(* Serializer::append_pair *)
append_pair(query, key, value) ==
    Append(query, [key |-> key, value |-> value, form |-> "pair"])

RECURSIVE ValuesOf(_, _)
ValuesOf(pairs, param_name) ==
    IF pairs = <<>> THEN <<>>
    ELSE IF Head(pairs)[1] = param_name
         THEN <<Head(pairs)[2]>> \o ValuesOf(Tail(pairs), param_name)
         ELSE ValuesOf(Tail(pairs), param_name)

(* QueryParam for Url :: params *)
params(url, param_name) == ValuesOf(query_pairs(url), param_name)

RECURSIVE SetParamLoop(_, _, _, _)
SetParamLoop(parameters, name, value, acc) ==
    IF parameters = <<>> THEN acc
    ELSE LET key == Head(parameters)[1]
             old == Head(parameters)[2]
         IN  IF key = name
             THEN SetParamLoop(Tail(parameters), name, value, append_pair(acc, key, value))
             ELSE SetParamLoop(Tail(parameters), name, value, append_pair(acc, key, old))

RECURSIVE SetParamKeepOthers(_, _, _)
SetParamKeepOthers(parameters, name, acc) ==
    IF parameters = <<>> THEN acc
    ELSE IF Head(parameters)[1] = name
         THEN SetParamKeepOthers(Tail(parameters), name, acc)
         ELSE SetParamKeepOthers(Tail(parameters), name,
                                 append_pair(acc, Head(parameters)[1], Head(parameters)[2]))

\* set_param that removes the parameter and appends it again at the end
set_param_at_end(url, name, value) ==
    [url EXCEPT !.query =
        append_pair(SetParamKeepOthers(query_pairs(url), name, <<>>), name, value)]

(* QueryParam for Url :: set_param *)
set_param(url, name, value) ==
    [url EXCEPT !.query = SetParamLoop(query_pairs(url), name, value, <<>>)]

-----------------------------------------------------------------------------
(* SolrQuery *)

\* SolrQuery::new that takes the first q parameter when there are several
SolrQuery_from_url_first_q(url) ==
    LET q_params == params(url, "q") IN
    IF Len(q_params) = 0 THEN Err(MissingQQueryParameter)
    ELSE Ok([url |-> url,
             negation |-> set_param(url, "q",
                 OperatorDisplay("Not") \o " (" \o q_params[1] \o ")")])

(* SolrQuery::new, from the match on the number of q parameters on *)
SolrQuery_from_url(url) ==
    LET q_params == params(url, "q") IN
    CASE Len(q_params) = 0 -> Err(MissingQQueryParameter)
      [] Len(q_params) = 1 ->
           Ok([url |-> url,
               negation |-> set_param(url, "q",
                   OperatorDisplay("Not") \o " (" \o q_params[1] \o ")")])
      [] OTHER -> Err(MultipleQQueryParameters)

(* SolrQuery::new *)
SolrQuery_new(source) ==
    LET parsed == TryInto(source) IN
    IF ~parsed.ok THEN Err(InvalidUrl(parsed.err))
    ELSE SolrQuery_from_url(parsed.val)

\* inverse that does not swap the url into the negation
inverse_keeps_negation(self) == [url |-> self.negation, negation |-> self.negation]

(* SolrQuery::inverse *)
inverse(self) == [url |-> self.negation, negation |-> self.url]

(* SolrQuery::q_param *)
q_param(self) ==
    LET q_params == params(self.url, "q") IN
    CASE Len(q_params) = 0 -> Err(MissingQQueryParameter)
      [] Len(q_params) = 1 -> Ok(q_params[1])
      [] OTHER -> Err(MultipleQQueryParameters)

check_has_same_host(self, other) ==
    IF self.url.host = other.url.host THEN Ok(<<>>)
    ELSE Err(DifferentsHosts(self.url.host, other.url.host))

check_has_same_path(self, other) ==
    IF self.url.path = other.url.path THEN Ok(<<>>)
    ELSE Err(DifferentsPaths)

check_has_same_port(self, other) ==
    IF self.url.port = other.url.port THEN Ok(<<>>)
    ELSE Err(DifferentsPorts(self.url.port, other.url.port))

RECURSIVE MergeLoop(_, _, _)
MergeLoop(pairs, new_q_param, acc) ==
    IF pairs = <<>> THEN acc
    ELSE LET key == Head(pairs)[1]
             value == Head(pairs)[2]
         IN  IF key # "q"
             THEN MergeLoop(Tail(pairs), new_q_param, append_pair(acc, key, value))
             ELSE MergeLoop(Tail(pairs), new_q_param, append_pair(acc, "q", new_q_param))

\* merge_queries that checks in the order of the trait's declarations:
\* path, then host, then port
merge_queries_path_first(self, other, operator) ==
    LET h == check_has_same_host(self, other)
        p == check_has_same_port(self, other)
        a == check_has_same_path(self, other)
        self_q == q_param(self)
        other_q == q_param(other)
    IN  IF ~a.ok THEN a
        ELSE IF ~h.ok THEN h
        ELSE IF ~p.ok THEN p
        ELSE IF ~self_q.ok THEN self_q
        ELSE IF ~other_q.ok THEN other_q
        ELSE LET new_q_param == "(" \o self_q.val \o ") " \o OperatorDisplay(operator)
                                    \o " (" \o other_q.val \o ")"
                 new_url == [other.url EXCEPT
                                !.query = MergeLoop(query_pairs(other.url), new_q_param, <<>>)]
             IN  SolrQuery_from_url(new_url)

\* merge_queries that rewrites the url of self instead of the url of other
merge_queries_from_self(self, other, operator) ==
    LET h == check_has_same_host(self, other)
        p == check_has_same_port(self, other)
        a == check_has_same_path(self, other)
        self_q == q_param(self)
        other_q == q_param(other)
    IN  IF ~h.ok THEN h
        ELSE IF ~p.ok THEN p
        ELSE IF ~a.ok THEN a
        ELSE IF ~self_q.ok THEN self_q
        ELSE IF ~other_q.ok THEN other_q
        ELSE LET new_q_param == "(" \o self_q.val \o ") " \o OperatorDisplay(operator)
                                    \o " (" \o other_q.val \o ")"
                 new_url == [self.url EXCEPT
                                !.query = MergeLoop(query_pairs(self.url), new_q_param, <<>>)]
             IN  SolrQuery_from_url(new_url)

(* SubQuery for SolrQuery :: merge_queries *)
merge_queries(self, other, operator) ==
    LET h == check_has_same_host(self, other)
        p == check_has_same_port(self, other)
        a == check_has_same_path(self, other)
        self_q == q_param(self)
        other_q == q_param(other)
    IN  IF ~h.ok THEN h
        ELSE IF ~p.ok THEN p
        ELSE IF ~a.ok THEN a
        ELSE IF ~self_q.ok THEN self_q
        ELSE IF ~other_q.ok THEN other_q
        ELSE LET new_q_param == "(" \o self_q.val \o ") " \o OperatorDisplay(operator)
                                    \o " (" \o other_q.val \o ")"
                 new_url == [other.url EXCEPT
                                !.query = MergeLoop(query_pairs(other.url), new_q_param, <<>>)]
             IN  SolrQuery_from_url(new_url)

\* inner_join that builds the negation from the prior negation of self
inner_join_from_negation(self, other) ==
    LET positive == merge_queries(self, other, "And")
        negative == merge_queries(inverse(self), other, "Not")
    IN  IF ~positive.ok THEN positive
        ELSE IF ~negative.ok THEN negative
        ELSE Ok([url |-> positive.val.url, negation |-> negative.val.url])

(* SubQuery for SolrQuery :: inner_join *)
inner_join(self, other) ==
    LET positive == merge_queries(self, other, "And")
        negative == merge_queries(self, other, "Not")
    IN  IF ~positive.ok THEN positive
        ELSE IF ~negative.ok THEN negative
        ELSE Ok([url |-> positive.val.url, negation |-> negative.val.url])

-----------------------------------------------------------------------------
(* QueryChain *)

(* QueryChain::new *)
QueryChain_new(qs) == [queries |-> qs, iteration |-> 0]

\* add_subquery that pushes the new query to the front of the sequence
add_subquery_push_front(self, source) ==
    LET query == SolrQuery_new(source) IN
    IF ~query.ok
    THEN [self |-> self, ret |-> query]
    ELSE [self |-> [self EXCEPT !.queries = <<query.val>> \o self.queries],
          ret |-> Ok(<<>>)]

(* QueryChain::add_subquery *)
add_subquery(self, source) ==
    LET query == SolrQuery_new(source) IN
    IF ~query.ok
    THEN [self |-> self, ret |-> query]
    ELSE [self |-> [self EXCEPT !.queries = Append(self.queries, query.val)],
          ret |-> Ok(<<>>)]

(* VecDeque::pop_front: the popped Option and the rest *)
pop_front(q) ==
    IF q = <<>> THEN [item |-> None, rest |-> <<>>]
    ELSE [item |-> Some(Head(q)), rest |-> Tail(q)]

\* next that joins the second element with the first
next_other_joins_self(self) ==
    IF self.iteration = 0
    THEN [self |-> [self EXCEPT !.iteration = self.iteration + 1],
          ret |-> IF Len(self.queries) > 0 THEN Some(self.queries[1]) ELSE None,
          panic |-> None]
    ELSE LET first == pop_front(self.queries)
             second == pop_front(first.rest)
         IN  IF first.item # None /\ second.item # None
             THEN LET q1 == first.item[1]
                      q2 == second.item[1]
                      new_query == inner_join(q2, q1)
                  IN  IF new_query.ok
                      THEN [self |-> [queries |-> <<new_query.val>> \o second.rest,
                                      iteration |-> self.iteration + 1],
                            ret |-> Some(new_query.val),
                            panic |-> None]
                      ELSE [self |-> [queries |-> second.rest,
                                      iteration |-> self.iteration + 1],
                            ret |-> None,
                            panic |-> Some(new_query.err)]
             ELSE [self |-> [self EXCEPT !.queries = second.rest],
                   ret |-> None,
                   panic |-> None]

\* next that leaves a lone element in the sequence when it returns None
next_keeps_last(self) ==
    IF self.iteration = 0
    THEN [self |-> [self EXCEPT !.iteration = self.iteration + 1],
          ret |-> IF Len(self.queries) > 0 THEN Some(self.queries[1]) ELSE None,
          panic |-> None]
    ELSE LET first == pop_front(self.queries)
             second == pop_front(first.rest)
         IN  IF first.item # None /\ second.item # None
             THEN LET q1 == first.item[1]
                      q2 == second.item[1]
                      new_query == inner_join(q1, q2)
                  IN  IF new_query.ok
                      THEN [self |-> [queries |-> <<new_query.val>> \o second.rest,
                                      iteration |-> self.iteration + 1],
                            ret |-> Some(new_query.val),
                            panic |-> None]
                      ELSE [self |-> [queries |-> second.rest,
                                      iteration |-> self.iteration + 1],
                            ret |-> None,
                            panic |-> Some(new_query.err)]
             ELSE [self |-> self,
                   ret |-> None,
                   panic |-> None]

(* Iterator for QueryChain :: next.  panic is Some(error) when the unwrap *)
(* of the join's result fails; the fields are then as the panic leaves them. *)
next(self) ==
    IF self.iteration = 0
    THEN [self |-> [self EXCEPT !.iteration = self.iteration + 1],
          ret |-> IF Len(self.queries) > 0 THEN Some(self.queries[1]) ELSE None,
          panic |-> None]
    ELSE LET first == pop_front(self.queries)
             second == pop_front(first.rest)
         IN  IF first.item # None /\ second.item # None
             THEN LET q1 == first.item[1]
                      q2 == second.item[1]
                      new_query == inner_join(q1, q2)
                  IN  IF new_query.ok
                      THEN [self |-> [queries |-> <<new_query.val>> \o second.rest,
                                      iteration |-> self.iteration + 1],
                            ret |-> Some(new_query.val),
                            panic |-> None]
                      ELSE [self |-> [queries |-> second.rest,
                                      iteration |-> self.iteration + 1],
                            ret |-> None,
                            panic |-> Some(new_query.err)]
             ELSE [self |-> [self EXCEPT !.queries = second.rest],
                   ret |-> None,
                   panic |-> None]

-----------------------------------------------------------------------------
(* Inputs *)

Http == Some("http")
Localhost == Some("localhost")
Localhost2 == Some("localhost2")
Port8983 == Some(8983)
Port8984 == Some(8984)
Select1 == "/solr/collection1/select"
Select2 == "/solr/collection2/select"

Q1 == <<Plain("q", "1:*")>>
Q2 == <<Plain("q", "2:*")>>
Q3 == <<Plain("fl", "id"), Plain("q", "3:*"), Bare("wt"), Plain("rows", "10")>>

\* strings given to SolrQuery::new by the caller of the query algebra
QuerySources ==
    { Source(Http, Localhost, Port8983, Select1, Q1),
      Source(Http, Localhost, Port8983, Select1, Q2),
      Source(Http, Localhost, Port8983, Select1, Q3),
      Source(Http, Localhost, Port8983, Select1, <<Plain("fq", "a"), Plain("q", "2:*")>>),
      Source(Http, Localhost, Port8983, Select1, <<>>),
      Source(Http, Localhost, Port8983, Select1, <<Plain("rows", "10"), Bare("wt")>>),
      Source(Http, Localhost, Port8983, Select1, <<Plain("q", "1"), Plain("q", "2")>>),
      Source(Http, Localhost, Port8983, Select1,
             <<Plain("q", "1"), Plain("fl", "id"), Bare("q"), Plain("q", "3")>>),
      Source(Http, Localhost2, Port8983, Select1, Q1),
      Source(Http, Localhost, Port8984, Select1, Q1),
      Source(Http, Localhost, Port8983, Select2, Q1),
      Source(Http, Localhost2, Port8984, Select2, Q2),
      Source(Http, Localhost, Port8984, Select2, Q2),
      Source(Http, Localhost2, Port8983, Select2, Q2),
      Source(Http, None, None, "x", Q1),
      Source(None, Localhost, Port8983, Select1, Q1) }

\* strings given to add_subquery, and the queries a chain is constructed from
ChainSources ==
    { Source(Http, Localhost, Port8983, Select1, Q1),
      Source(Http, Localhost, Port8983, Select1, Q2),
      Source(Http, Localhost, Port8983, Select1, Q3),
      Source(Http, Localhost2, Port8983, Select1, Q1) }

AddSources ==
    ChainSources \cup
    { Source(Http, Localhost, Port8983, Select1, <<Plain("q", "1"), Plain("q", "2")>>),
      Source(None, Localhost, Port8983, Select1, Q1) }

InitQueries == { SolrQuery_new(s).val : s \in ChainSources }

SeqsUpTo(S, n) == UNION { [1..k -> S] : k \in 0..n }

-----------------------------------------------------------------------------
(* The caller of the query algebra: SolrQuery::new, inner_join, inverse *)

InitQuery ==
    /\ reg = [i \in Slots |-> None]
    /\ origin = [i \in Slots |-> "none"]
    /\ ops = 0
    /\ queries = <<>>
    /\ iteration = 0
    /\ pc = "run"
    /\ inputs = <<>>
    /\ initLen = 0
    /\ calls = 0
    /\ exhausted = FALSE
    /\ addsSinceNone = 0
    /\ last = [op |-> "init"]

New(i, source) ==
    /\ ops < MaxOps
    /\ LET ret == SolrQuery_new(source) IN
        /\ reg' = IF ret.ok THEN [reg EXCEPT ![i] = Some(ret.val)] ELSE reg
        /\ origin' = IF ret.ok THEN [origin EXCEPT ![i] = "new"] ELSE origin
        /\ last' = [op |-> "new", source |-> source, ret |-> ret]
    /\ ops' = ops + 1
    /\ UNCHANGED chainVars

InnerJoin(i, j) ==
    /\ ops < MaxOps
    /\ reg[i] # None
    /\ reg[j] # None
    /\ LET self == reg[i][1]
           other == reg[j][1]
           ret == inner_join(self, other)
       IN  /\ reg' = IF ret.ok THEN [reg EXCEPT ![i] = Some(ret.val)] ELSE reg
           /\ origin' = IF ret.ok THEN [origin EXCEPT ![i] = "join"] ELSE origin
           /\ last' = [op |-> "inner_join", self |-> self, other |-> other, ret |-> ret]
    /\ ops' = ops + 1
    /\ UNCHANGED chainVars

Inverse(i) ==
    /\ ops < MaxOps
    /\ reg[i] # None
    /\ LET self == reg[i][1]
           ret == inverse(self)
       IN  /\ reg' = [reg EXCEPT ![i] = Some(ret)]
           /\ last' = [op |-> "inverse", self |-> self, self_origin |-> origin[i],
                       ret |-> ret]
    /\ origin' = [origin EXCEPT ![i] = "inverse"]
    /\ ops' = ops + 1
    /\ UNCHANGED chainVars

NextQuery ==
    \/ \E i \in Slots, source \in QuerySources : New(i, source)
    \/ \E i \in Slots, j \in Slots : InnerJoin(i, j)
    \/ \E i \in Slots : Inverse(i)

SpecQuery == InitQuery /\ [][NextQuery]_vars

-----------------------------------------------------------------------------
(* The caller of the chain: QueryChain::new, then add_subquery and next *)

Init ==
    /\ reg = [i \in Slots |-> None]
    /\ origin = [i \in Slots |-> "none"]
    /\ ops = 0
    /\ \E qs \in SeqsUpTo(InitQueries, MaxInit) :
          /\ queries = QueryChain_new(qs).queries
          /\ iteration = QueryChain_new(qs).iteration
          /\ inputs = qs
          /\ initLen = Len(qs)
    /\ pc = "run"
    /\ calls = 0
    /\ exhausted = FALSE
    /\ addsSinceNone = 0
    /\ last = [op |-> "init"]

AddSubquery(source) ==
    /\ pc = "run"
    /\ Len(inputs) - initLen < MaxAdds
    /\ LET r == add_subquery([queries |-> queries, iteration |-> iteration], source) IN
        /\ queries' = r.self.queries
        /\ iteration' = r.self.iteration
        /\ inputs' = IF r.ret.ok THEN Append(inputs, SolrQuery_new(source).val) ELSE inputs
        /\ addsSinceNone' = IF r.ret.ok THEN addsSinceNone + 1 ELSE addsSinceNone
        /\ last' = [op |-> "add_subquery", source |-> source, ret |-> r.ret,
                    before |-> queries]
    /\ UNCHANGED <<pc, initLen, calls, exhausted, queryVars>>

Advance ==
    /\ pc = "run"
    /\ calls < MaxCalls
    /\ LET r == next([queries |-> queries, iteration |-> iteration]) IN
        /\ queries' = r.self.queries
        /\ iteration' = r.self.iteration
        /\ pc' = IF r.panic # None THEN "panicked" ELSE "run"
        /\ exhausted' = (exhausted \/ (iteration >= 1 /\ r.panic = None /\ r.ret = None))
        /\ addsSinceNone' = IF r.panic = None /\ r.ret = None THEN 0 ELSE addsSinceNone
        /\ last' = [op |-> "next", ret |-> r.ret, panic |-> r.panic,
                    before |-> queries, step |-> iteration]
    /\ calls' = calls + 1
    /\ UNCHANGED <<inputs, initLen, queryVars>>

Next ==
    \/ \E source \in AddSources : AddSubquery(source)
    \/ Advance

Spec == Init /\ [][Next]_vars

-----------------------------------------------------------------------------
(* Vocabulary of the properties *)

SameEndpoint(a, b) ==
    /\ a.url.host = b.url.host
    /\ a.url.port = b.url.port
    /\ a.url.path = b.url.path

SameEndpointAll(s) == \A i \in 1..Len(s), j \in 1..Len(s) : SameEndpoint(s[i], s[j])

\* the value of the only q parameter of a url
QOf(url) == params(url, "q")[1]

\* number of parameters named q in a query string
NumQ(query) == Cardinality({ i \in 1..Len(query) : query[i].key = "q" })

\* a url without its query string
Endpoint(url) == [url EXCEPT !.query = <<>>]

\* u carries the parameters of b, in b's order, with every value but q's unchanged
\* and q's value equal to q
SameParamsBut(u, b, q) ==
    /\ Len(u.query) = Len(b.query)
    /\ \A k \in 1..Len(b.query) :
          /\ u.query[k].key = b.query[k].key
          /\ u.query[k].value = IF b.query[k].key = "q" THEN q ELSE b.query[k].value

\* the left-associative join of the first k elements of s
RECURSIVE LeftJoin(_, _)
LeftJoin(s, k) ==
    IF k = 1 THEN s[1] ELSE inner_join(LeftJoin(s, k - 1), s[k]).val

HasNegation(q) == "negation" \in DOMAIN q
IsQuery(q) == DOMAIN q = {"url", "negation"}

-----------------------------------------------------------------------------
(* Properties of the query algebra, under SpecQuery *)

\* C1: for Queries A (q = a) and B (q = b) with equal host, port and path,
\* A.inner_join(B) succeeds, its url has q = "(a) AND (b)" and its inverse has
\* q = "(a) NOT (b)", also when A is itself a join result: joining 1:*, 2:*, 3:*
\* gives ((1:*) AND (2:*)) AND (3:*) with inverse ((1:*) AND (2:*)) NOT (3:*).
C1_JoinContent ==
    (last.op = "inner_join" /\ SameEndpoint(last.self, last.other)) =>
        LET a == QOf(last.self.url)
            b == QOf(last.other.url)
        IN  /\ last.ret.ok
            /\ params(last.ret.val.url, "q") = <<"(" \o a \o ") AND (" \o b \o ")">>
            /\ params(inverse(last.ret.val).url, "q") = <<"(" \o a \o ") NOT (" \o b \o ")">>
            /\ (a = "(1:*) AND (2:*)" /\ b = "3:*") =>
                  /\ QOf(last.ret.val.url) = "((1:*) AND (2:*)) AND (3:*)"
                  /\ QOf(inverse(last.ret.val).url) = "((1:*) AND (2:*)) NOT (3:*)"

C1_Witness ==
    /\ last.op = "inner_join"
    /\ last.ret.ok
    /\ QOf(last.self.url) = "(1:*) AND (2:*)"
    /\ QOf(last.self.negation) = "(1:*) NOT (2:*)"
    /\ QOf(last.ret.val.url) = "((1:*) AND (2:*)) AND (3:*)"
    /\ QOf(inverse(last.ret.val).url) = "((1:*) AND (2:*)) NOT (3:*)"

\* C3: inner_join checks host, then port, then path, and the first mismatch
\* decides the error: DifferentsHosts with both hosts, else DifferentsPorts
\* with both ports, else DifferentsPaths, else success.
C3_GuardOrder ==
    last.op = "inner_join" =>
        LET A == last.self.url
            B == last.other.url
        IN  IF A.host # B.host THEN last.ret = Err(DifferentsHosts(A.host, B.host))
            ELSE IF A.port # B.port THEN last.ret = Err(DifferentsPorts(A.port, B.port))
            ELSE IF A.path # B.path THEN last.ret = Err(DifferentsPaths)
            ELSE last.ret.ok

C3_Witness ==
    /\ last.op = "inner_join"
    /\ last.self.url.host = last.other.url.host
    /\ last.self.url.port # last.other.url.port
    /\ last.self.url.path # last.other.url.path
    /\ last.ret = Err(DifferentsPorts(Port8983, Port8984))

\* C4: for a parseable url, SolrQuery::new fails with MissingQQueryParameter
\* iff there is no parameter named q, with MultipleQQueryParameters iff there
\* are two or more, and otherwise succeeds with the given url; every Query
\* obtained from new, inner_join or inverse has exactly one q on its url and
\* on its negation.
C4_ExactlyOneQ ==
    /\ (last.op = "new" /\ TryInto(last.source).ok) =>
          LET n == NumQ(last.source.query) IN
          /\ (last.ret = Err(MissingQQueryParameter)) <=> (n = 0)
          /\ (last.ret = Err(MultipleQQueryParameters)) <=> (n >= 2)
          /\ (n = 1) => (last.ret.ok /\ last.ret.val.url = TryInto(last.source).val)
    /\ \A i \in Slots :
          reg[i] # None =>
              /\ NumQ(reg[i][1].url.query) = 1
              /\ NumQ(reg[i][1].negation.query) = 1

C4_Witness ==
    /\ last.op = "new"
    /\ last.ret = Err(MultipleQQueryParameters)
    /\ NumQ(last.source.query) = 3
    /\ \E i \in Slots : origin[i] = "join"
    /\ \E i \in Slots : origin[i] = "inverse"

\* C7: the url and the negation of a successful A.inner_join(B) carry exactly
\* the parameters of B, in B's order and with unchanged values, except q, whose
\* value at its position is the combined expression; the other components
\* of the url are those of B.
C7_ParamsOfOther ==
    (last.op = "inner_join" /\ last.ret.ok) =>
        LET a == QOf(last.self.url)
            b == QOf(last.other.url)
            B == last.other.url
        IN  /\ SameParamsBut(last.ret.val.url, B, "(" \o a \o ") AND (" \o b \o ")")
            /\ SameParamsBut(last.ret.val.negation, B, "(" \o a \o ") NOT (" \o b \o ")")
            /\ Endpoint(last.ret.val.url) = Endpoint(B)
            /\ Endpoint(last.ret.val.negation) = Endpoint(B)

C7_Witness ==
    /\ last.op = "inner_join"
    /\ last.ret.ok
    /\ last.other.url.query = Q3
    /\ \E k \in 1..Len(last.self.url.query) : last.self.url.query[k].key = "fq"
    /\ [k \in 1..4 |-> last.ret.val.url.query[k].key] = <<"fl", "q", "wt", "rows">>

\* C8: for a Query from SolrQuery::new with q = X that took part in no join,
\* inverse returns a Query at the same url (scheme, host, port, path, the other
\* parameters in the same order) whose q value is "NOT (X)".
C8_InverseOfNew ==
    (last.op = "inverse" /\ last.self_origin = "new") =>
        /\ Endpoint(last.ret.url) = Endpoint(last.self.url)
        /\ SameParamsBut(last.ret.url, last.self.url, "NOT (" \o QOf(last.self.url) \o ")")
        /\ (QOf(last.self.url) = "1:*") => (QOf(last.ret.url) = "NOT (1:*)")

C8_Witness ==
    /\ last.op = "inverse"
    /\ last.self_origin = "new"
    /\ last.self.url.query = Q3
    /\ QOf(last.ret.url) = "NOT (3:*)"

\* C9 as stated: a Query carries a negation only as the direct result of a
\* join: the Query returned by new has no negation, the Query returned by
\* inverse has none, and inverse of a Query that took part in no join returns
\* no usable Query.
C9_NegationOnlyAfterJoin ==
    /\ (last.op = "new" /\ last.ret.ok) => ~HasNegation(last.ret.val)
    /\ (last.op = "inverse") => ~HasNegation(last.ret)
    /\ (last.op = "inverse" /\ last.self_origin # "join") => ~IsQuery(last.ret)

\* C9 amended: every Query carries a negation: the one returned by new for
\* q = X has as negation its url with q = "NOT (X)", the one returned by
\* inverse has the url of the inverted Query as its negation (inverting twice
\* gives the Query back), and inverse of a Query that took part in no join
\* returns a usable Query.
C9_NegationAlways ==
    /\ (last.op = "new" /\ last.ret.ok) =>
          /\ HasNegation(last.ret.val)
          /\ params(last.ret.val.negation, "q") = <<"NOT (" \o QOf(last.ret.val.url) \o ")">>
    /\ (last.op = "inverse") =>
          /\ IsQuery(last.ret)
          /\ last.ret.negation = last.self.url
          /\ inverse(last.ret) = last.self
          /\ NumQ(last.ret.url.query) = 1

C9_Witness ==
    /\ last.op = "inverse"
    /\ last.self_origin = "inverse"
    /\ \E s \in QuerySources : SolrQuery_new(s).ok /\ last.ret = SolrQuery_new(s).val

-----------------------------------------------------------------------------
(* Properties of the chain, under Spec *)

\* C2: a chain constructed from n queries on one host, port and path, with
\* no add_subquery, returns on its k-th call of next the left-associative join
\* of the first k inputs (the first input itself for k = 1), for k <= n, and
\* None on every later call.
C2_FoldSequence ==
    (last.op = "next" /\ Len(inputs) = initLen /\ SameEndpointAll(inputs)) =>
        /\ last.panic = None
        /\ last.ret = IF calls <= initLen THEN Some(LeftJoin(inputs, calls)) ELSE None

C2_Witness ==
    /\ last.op = "next"
    /\ SameEndpointAll(inputs)
    /\ Len(inputs) = initLen
    /\ initLen = 3
    /\ calls = 4
    /\ last.ret = None
    /\ \A i \in 1..3 : \A j \in 1..3 : i # j => inputs[i] # inputs[j]

\* C5: whenever the chain has been given at least one query (all on one host,
\* port and path), its sequence has a first element, which is the
\* left-associative join of the elements consumed so far (the first input
\* while nothing was consumed): next does not lose the accumulated result.
C5_FirstElementAccumulates ==
    (pc = "run" /\ inputs # <<>> /\ SameEndpointAll(inputs)) =>
        /\ queries # <<>>
        /\ Head(queries) = LeftJoin(inputs, Len(inputs) - Len(queries) + 1)

\* C6 as stated: once next at iteration >= 1 has returned None, every later
\* call of next returns None and does not fail, whatever add_subquery and
\* next calls follow; a chain constructed empty returns None on every next
\* as long as nothing is appended.
C6_ExhaustedForever ==
    [][ (calls' = calls + 1) =>
          /\ exhausted => (last'.ret = None /\ last'.panic = None)
          /\ (inputs = <<>>) => (last'.ret = None /\ last'.panic = None) ]_vars

\* C6 amended: once next at iteration >= 1 has returned None, every later
\* call of next returns None and does not fail until two queries have been
\* appended by add_subquery since the last None; a chain constructed empty
\* returns None on every next as long as nothing is appended.
C6_ExhaustedUntilTwoAppended ==
    [][ (calls' = calls + 1) =>
          /\ (exhausted /\ addsSinceNone < 2) => (last'.ret = None /\ last'.panic = None)
          /\ (inputs = <<>>) => (last'.ret = None /\ last'.panic = None) ]_vars

C6_Witness ==
    /\ exhausted
    /\ last.op = "next"
    /\ last.ret = None
    /\ calls >= 3
    /\ initLen >= 1
    /\ Len(inputs) = initLen + 1
    /\ last.before = <<inputs[Len(inputs)]>>

\* C10: no call of next reaches a join failure: the unwrap of the join's
\* result never panics, whatever hosts, ports and paths the queries of the
\* chain have.
C10_NoJoinFailure ==
    last.op = "next" => last.panic = None

\* C11: add_subquery(source) in any state of the chain: when
\* SolrQuery::new(source) fails, that error is returned and the sequence and
\* the cursor are unchanged; when it succeeds, exactly one query, the one
\* constructed, is appended at the end, the elements already there keep their
\* order and values, the cursor is unchanged and no fold step is performed.
C11_AddSubqueryFrame ==
    [][ (last'.op = "add_subquery" /\ calls' = calls) =>
          LET constructed == SolrQuery_new(last'.source) IN
          /\ iteration' = iteration
          /\ pc' = pc
          /\ IF constructed.ok
             THEN /\ last'.ret.ok
                  /\ Len(queries') = Len(queries) + 1
                  /\ SubSeq(queries', 1, Len(queries)) = queries
                  /\ queries'[Len(queries')] = constructed.val
             ELSE /\ ~last'.ret.ok
                  /\ last'.ret.err = constructed.err
                  /\ queries' = queries ]_vars

C11_Witness ==
    /\ last.op = "add_subquery"
    /\ last.ret.ok
    /\ iteration >= 2
    /\ Len(last.before) >= 2
    /\ Len(queries) = Len(last.before) + 1
    /\ queries[Len(queries)].url.query = Q3

====
